---------------------------- MODULE Spec2Model ----------------------------
(***************************************************************************)
(* A model of django-interval-field: interval/fields.py (IntervalField,    *)
(* its text parser, its two database encodings and the psycopg2 decoder)   *)
(* and interval/tools.py (cmp_relativedeltas).                             *)
(*                                                                         *)
(* Python values are records tagged by their type in field t.  A str is a  *)
(* sequence of one-character strings, so that find, split, strip and int() *)
(* are computed character by character as Python computes them.            *)
(*                                                                         *)
(* Numbers of microseconds do not fit TLC's 32-bit integers (one day is    *)
(* 86400000000 of them), so such a number n is kept as the pair            *)
(* [q, r] with n = q * microseconds + r and 0 <= r < microseconds.  The    *)
(* float that to_python builds from a stored number, n / microseconds,     *)
(* is kept exactly as whole seconds q and millionths r (field secfrac of a *)
(* relativedelta); float rounding is not modelled.                         *)
(***************************************************************************)
EXTENDS Integers, Sequences, FiniteSets, TLC

VARIABLES
    engine,   \* connection.settings_dict['ENGINE']
    form,     \* how the text assigned to the attribute was composed
    raw,      \* the Python value assigned to the model attribute
    attr,     \* the model attribute (SubfieldBase passes it through to_python)
    db,       \* the column as get_db_prep_value last produced it
    wire,     \* the interval text the PostgreSQL server sends to the driver
    err,      \* the exception the last operation raised, or NoError
    last,     \* the last operation performed
    cycles,   \* completed save/load cycles
    lhs, rhs, \* the arguments of cmp_relativedeltas
    cmpres    \* its result

vars == <<engine, form, raw, attr, db, wire, err, last, cycles, lhs, rhs, cmpres>>

---------------------------------------------------------------------------
(* Program constants.                                                      *)

day_seconds == 24 * 60 * 60

microseconds == 1000000

---------------------------------------------------------------------------
(* Bounds of the model.                                                    *)

\* save/load cycles a behaviour may perform
MaxCycles == 2

\* largest days / hours-over-a-day component of a delta assigned directly
MaxDays == 1

\* largest absolute value of a component handed to cmp_relativedeltas
MaxCmp == 1

---------------------------------------------------------------------------
(* Python str operations on sequences of characters.                       *)

DigitChars == <<"0", "1", "2", "3", "4", "5", "6", "7", "8", "9">>

IsDigit(c) == \E i \in 1..10 : DigitChars[i] = c

DigitVal(c) == (CHOOSE i \in 1..10 : DigitChars[i] = c) - 1

\* s[i:j] with Python's 0-based, end-exclusive indices
Slice(s, i, j) == IF j <= i THEN << >> ELSE SubSeq(s, i + 1, j)

StartsAt(s, sub, i) ==
    /\ i + Len(sub) <= Len(s)
    /\ \A k \in 1..Len(sub) : s[i + k] = sub[k]

\* str.find: the lowest 0-based index where sub occurs, or -1
Find(s, sub) ==
    LET hits == {i \in 0..Len(s) : StartsAt(s, sub, i)}
    IN  IF hits = {} THEN -1
        ELSE CHOOSE i \in hits : \A j \in hits : i <= j

RECURSIVE Split(_, _)
RECURSIVE SplitAt(_, _, _)
\* str.split(sep): the pieces between the occurrences of sep, left to right
Split(s, sep) == SplitAt(s, sep, Find(s, sep))

\* the split of s whose first occurrence of sep is at i (-1: none)
SplitAt(s, sep, i) ==
    IF i < 0 THEN <<s>>
    ELSE <<Slice(s, 0, i)>> \o Split(Slice(s, i + Len(sep), Len(s)), sep)

RECURSIVE LStrip(_)
LStrip(s) == IF s # << >> /\ Head(s) = " " THEN LStrip(Tail(s)) ELSE s

RECURSIVE RStrip(_)
RStrip(s) ==
    IF s # << >> /\ s[Len(s)] = " " THEN RStrip(Slice(s, 0, Len(s) - 1)) ELSE s

\* str.strip()
Strip(s) == LStrip(RStrip(s))

RECURSIVE DigitsVal(_)
DigitsVal(ds) ==
    IF ds = << >> THEN 0
    ELSE 10 * DigitsVal(Slice(ds, 0, Len(ds) - 1)) + DigitVal(ds[Len(ds)])

\* the digits u of an int literal and its sign: whether they are a literal
\* (at least one character, all digits), and its value
IntLiteral(u, neg) ==
    IF u # << >> /\ \A k \in 1..Len(u) : IsDigit(u[k])
    THEN [ok |-> TRUE, v |-> IF neg THEN 0 - DigitsVal(u) ELSE DigitsVal(u)]
    ELSE [ok |-> FALSE, v |-> 0]

\* an int literal without its surrounding blanks: one optional sign, digits
SignedLiteral(b) ==
    IF b # << >> /\ Head(b) \in {"+", "-"}
    THEN IntLiteral(Tail(b), Head(b) = "-")
    ELSE IntLiteral(b, FALSE)

\* int(s) for a str s: ok is whether it succeeds, v its value
int(s) == SignedLiteral(Strip(s))

RECURSIVE NatStr(_)
NatStr(n) ==
    IF n < 10 THEN <<DigitChars[n + 1]>>
    ELSE NatStr(n \div 10) \o <<DigitChars[(n % 10) + 1]>>

\* '%s' % n for an int n
IntStr(n) == IF n < 0 THEN <<"-">> \o NatStr(0 - n) ELSE NatStr(n)

---------------------------------------------------------------------------
(* Python values.                                                          *)

None == [t |-> "None"]

Str(s) == [t |-> "str", s |-> s]

\* an int (or long) n = q * microseconds + r
BigInt(q, r) == [t |-> "int", q |-> q, r |-> r]

\* datetime.timedelta(days, seconds, microseconds), normalised as timedelta is
TimeDelta(d, s, us) == [t |-> "timedelta", days |-> d, seconds |-> s, microseconds |-> us]

\* a relativedelta with the given attributes, as they stand
RD(y, mo, d, h, mi, s, sf, us) ==
    [t |-> "relativedelta", years |-> y, months |-> mo, days |-> d, hours |-> h,
     minutes |-> mi, seconds |-> s, secfrac |-> sf, microseconds |-> us]

\* relativedelta(...): the constructor carries each non-negative component's
\* overflow into the next one (microseconds > 999999 into seconds, seconds
\* > 59 into minutes, minutes > 59 into hours, hours > 23 into days, months
\* > 11 into years); days are never carried into months
relativedelta(y, mo, d, h, mi, s, sf, us) ==
    LET us1 == us % microseconds
        s0  == s + (us \div microseconds)
        s1  == s0 % 60
        mi0 == mi + (s0 \div 60)
        mi1 == mi0 % 60
        h0  == h + (mi0 \div 60)
        h1  == h0 % 24
        d1  == d + (h0 \div 24)
        mo1 == mo % 12
        y1  == y + (mo \div 12)
    IN  RD(y1, mo1, d1, h1, mi1, s1, sf, us1)

NoError == [t |-> "NoError"]

ValueError(fmt, args) == [t |-> "ValueError", fmt |-> fmt, args |-> args]

\* the outcome of a call: the value it returns, or the exception it raises
Return(v) == [exc |-> NoError, val |-> v]

Raise(e) == [exc |-> e, val |-> None]

---------------------------------------------------------------------------
(* interval/fields.py                                                      *)

FormatInstruction == "please use [[DD]D days,]HH:MM:SS[.ms] instead of %r"

formatError(value) == ValueError(FormatInstruction, <<value>>)

\* range_check after value = int(value) gave p.  A bound is << >> for None
\* and <<n>> for n.
range_checked(p, value, min, max) ==
    IF ~p.ok
    THEN [ok |-> FALSE, v |-> 0, e |-> ValueError("%s is not an integer", <<value>>)]
    ELSE IF min # << >> /\ p.v < min[1]
    THEN [ok |-> FALSE, v |-> p.v,
          e |-> ValueError("%s is less than %s", <<IntStr(p.v), IntStr(min[1])>>)]
    ELSE IF max # << >> /\ p.v > max[1]
    THEN [ok |-> FALSE, v |-> p.v,
          e |-> ValueError("%s is more than %s", <<IntStr(p.v), IntStr(max[1])>>)]
    ELSE [ok |-> TRUE, v |-> p.v, e |-> NoError]

\* range_check(value, name, min, max) for a str value
range_check(value, name, min, max) == range_checked(int(value), value, min, max)

RECURSIVE Pow10(_)
\* 10 ** l
Pow10(l) == IF l = 0 THEN 1 ELSE 10 * Pow10(l - 1)

TooManyValues == ValueError("too many values to unpack", << >>)

\* The steps of IntervalField.to_python for a str holding ':' (the fixture
\* form "X days, HH:MM:SS.ms"), last step first; each raises where the
\* Python raises.

\* ms = ms * (microseconds / (10 ** l)) and the relativedelta returned
text_delta(days, h, m, s, ms, l) ==
    IF ~ms.ok THEN Raise(ms.e)
    ELSE Return(relativedelta(0, 0, days, h, m, s, 0,
                              ms.v * (microseconds \div Pow10(l))))

\* s = range_check(s, "seconds", 0, 59), then the microseconds
text_seconds(days, h, m, s, msText) ==
    IF ~s.ok THEN Raise(s.e)
    ELSE text_delta(days, h, m, s.v,
                    range_check(msText, "microseconds", <<0>>, <<microseconds>>),
                    Len(msText))

\* s, ms = s.split(".") when s holds a '.', ms = "0" otherwise
text_fraction(days, h, m, sec, sms) ==
    IF Len(sms) > 2 THEN Raise(TooManyValues)
    ELSE text_seconds(days, h, m,
                      range_check(sms[1], "seconds", <<0>>, <<59>>),
                      IF Len(sms) = 2 THEN sms[2] ELSE <<"0">>)

\* m = range_check(m, "minutes", 0, 59), then the seconds
text_minutes(days, h, m, sec) ==
    IF ~m.ok THEN Raise(m.e)
    ELSE text_fraction(days, h, m.v, sec, Split(sec, <<".">>))

\* h = range_check(h, "hours", 0), then the minutes
text_hours(days, h, hms) ==
    IF ~h.ok THEN Raise(h.e)
    ELSE text_minutes(days, h.v, range_check(hms[2], "minutes", <<0>>, <<59>>), hms[3])

\* h, m, s = value.split(":")
text_clock(days, value, hms) ==
    IF Len(hms) # 3 THEN Raise(formatError(value))
    ELSE text_hours(days, range_check(hms[1], "hours", <<0>>, << >>), hms)

\* the clock part, once the days prefix gave pre (exc: what it raised)
text_after_days(pre) ==
    IF pre.exc # NoError THEN Raise(pre.exc)
    ELSE text_clock(pre.days, pre.value, Split(pre.value, <<":">>))

\* days = range_check(days, "days", 0): days is an int here
text_days_checked(days, value) ==
    [exc |-> days.e, days |-> days.v, value |-> value]

\* days = int(days.strip())
text_days_int(p, value) ==
    IF ~p.ok THEN [exc |-> formatError(value), days |-> 0, value |-> value]
    ELSE text_days_checked(range_checked(p, IntStr(p.v), <<0>>, << >>), value)

\* days, value = value.split(sep); value = value.strip()
text_days_split(parts) ==
    IF Len(parts) # 2 THEN [exc |-> TooManyValues, days |-> 0, value |-> << >>]
    ELSE text_days_int(int(Strip(parts[1])), Strip(parts[2]))

\* the days prefix: split at "days," if the text holds it, else at "day,"
text_days(value, hasDays, hasDay) ==
    IF hasDays THEN text_days_split(Split(value, <<"d", "a", "y", "s", ",">>))
    ELSE IF hasDay THEN text_days_split(Split(value, <<"d", "a", "y", ",">>))
    ELSE [exc |-> NoError, days |-> 0, value |-> value]

text_to_python(value) ==
    text_after_days(text_days(value,
                              Find(value, <<"d", "a", "y", "s", ",">>) >= 0,
                              Find(value, <<"d", "a", "y", ",">>) >= 0))

\* relativedelta(seconds=n / microseconds) for a number n >= 0
stored_delta(q, r) == Return(relativedelta(0, 0, 0, 0, 0, q, r, 0))

\* float(value) for a str.  Of the numerals float() accepts, the modelled
\* inputs hold only the non-negative decimal integers.
stored_text(p, value) ==
    IF p.ok THEN stored_delta(p.v \div microseconds, p.v % microseconds)
    ELSE Raise(ValueError("could not convert string to float: %s", <<value>>))

\* relativedelta(seconds=float(value) / microseconds), as whole seconds and
\* millionths
stored_to_python(value) ==
    IF value.t = "int" THEN stored_delta(value.q, value.r)
    ELSE stored_text(int(value.s), value.s)

\* to_python testing isinstance(value, timedelta) alone: a relativedelta
\* reaches float(value), which raises TypeError
to_python_without_delta_case(value) ==
    IF value.t = "relativedelta" THEN Raise([t |-> "TypeError"])
    ELSE IF value.t = "timedelta"
    THEN Return(relativedelta(0, 0, 0, 0, 0,
                 value.days * day_seconds + value.seconds, value.microseconds, 0))
    ELSE IF value.t = "None" \/ (value.t = "str" /\ value.s = << >>) THEN Return(None)
    ELSE IF value.t = "str" /\ Find(value.s, <<":">>) >= 0 THEN text_to_python(value.s)
    ELSE stored_to_python(value)

\* IntervalField.to_python
to_python(value) ==
    IF value.t = "relativedelta" THEN Return(value)
    ELSE IF value.t = "timedelta"
    THEN Return(relativedelta(0, 0, 0, 0, 0,
                 value.days * day_seconds + value.seconds, value.microseconds, 0))
    ELSE IF value.t = "None" \/ (value.t = "str" /\ value.s = << >>) THEN Return(None)
    ELSE IF value.t = "str" /\ Find(value.s, <<":">>) >= 0 THEN text_to_python(value.s)
    ELSE stored_to_python(value)

MONTHS == <<"M", "O", "N", "T", "H", "S">>

DAYS == <<"D", "A", "Y", "S">>

SECONDS == <<"S", "E", "C", "O", "N", "D", "S">>

MICROSECONDS == <<"M", "I", "C", "R", "O">> \o SECONDS

RECURSIVE Join(_, _)
\* sep.join(buf)
Join(buf, sep) ==
    IF buf = << >> THEN << >>
    ELSE IF Len(buf) = 1 THEN buf[1]
    ELSE buf[1] \o sep \o Join(Tail(buf), sep)

\* '%i %s' % (v, attr.upper())
Term(v, unit) == IntStr(v) \o <<" ">> \o unit

\* relativedelta_topgsqlstring: one term for each of months, days, seconds
\* and microseconds that is truthy; '%i' cuts a float seconds to its whole part
relativedelta_topgsqlstring(value) ==
    LET buf == (IF value.months # 0 THEN <<Term(value.months, MONTHS)>> ELSE << >>)
            \o (IF value.days # 0 THEN <<Term(value.days, DAYS)>> ELSE << >>)
            \o (IF value.seconds # 0 \/ value.secfrac # 0
                THEN <<Term(value.seconds, SECONDS)>> ELSE << >>)
            \o (IF value.microseconds # 0
                THEN <<Term(value.microseconds, MICROSECONDS)>> ELSE << >>)
    IN  IF buf = << >> THEN <<"0">> ELSE Join(buf, <<" ">>)

\* relativedelta_tobigint: days * day_seconds * microseconds
\* + seconds * microseconds + microseconds, as the pair [q, r]
relativedelta_tobigint(value) ==
    LET low == value.secfrac + value.microseconds
    IN  BigInt(value.days * day_seconds + value.seconds + (low \div microseconds),
               low % microseconds)

PgEngines ==
    {"django.db.backends.postgresql_psycopg2", "django.contrib.gis.db.backends.postgis"}

OtherEngines == {"django.db.backends.sqlite3", "django.db.backends.mysql"}

\* ENGINE.find('postgresql') >= 0 or ENGINE.find('postgis') >= 0
IsPostgres(e) == e \in PgEngines

\* IntervalField.db_type
db_type(e) == IF IsPostgres(e) THEN "INTERVAL" ELSE "BIGINT"

AttributeError == [t |-> "AttributeError"]

\* IntervalField.get_db_prep_value
get_db_prep_value(value, e) ==
    IF value.t = "None" \/ (value.t = "str" /\ value.s = << >>) THEN Return(None)
    ELSE IF IsPostgres(e)
    THEN IF value.t = "str" THEN Return(value)
         ELSE IF value.t = "relativedelta"
         THEN Return(Str(relativedelta_topgsqlstring(value)))
         ELSE Raise(AttributeError)
    ELSE IF value.t = "relativedelta" THEN Return(relativedelta_tobigint(value))
         ELSE Raise(AttributeError)

\* the end of the run of digits that starts at 0-based index p
RECURSIVE DigitsEnd(_, _)
DigitsEnd(s, p) == IF p < Len(s) /\ IsDigit(s[p + 1]) THEN DigitsEnd(s, p + 1) ELSE p

RECURSIVE FindAllUnits(_, _, _)
\* re.compile('(\d+) <unit>s?').findall(s), searching from index p: the
\* digits of each match, left to right, matches not overlapping
FindAllUnits(s, unit, p) ==
    IF p >= Len(s) THEN << >>
    ELSE LET j == DigitsEnd(s, p)
             k == j + Len(unit)
         IN  IF j > p /\ StartsAt(s, unit, j)
             THEN <<Slice(s, p, j)>>
                  \o FindAllUnits(s, unit, IF StartsAt(s, <<"s">>, k) THEN k + 1 ELSE k)
             ELSE FindAllUnits(s, unit, p + 1)

\* whether '\d\d:\d\d:\d\d' matches at 0-based index p
HmsAt(s, p) ==
    /\ p + 8 <= Len(s)
    /\ \A i \in {1, 2, 4, 5, 7, 8} : IsDigit(s[p + i])
    /\ s[p + 3] = ":"
    /\ s[p + 6] = ":"

RECURSIVE FindAllHms(_, _)
\* hms_re.findall(s), searching from index p
FindAllHms(s, p) ==
    IF p >= Len(s) THEN << >>
    ELSE IF HmsAt(s, p) THEN <<Slice(s, p, p + 8)>> \o FindAllHms(s, p + 8)
    ELSE FindAllHms(s, p + 1)

RECURSIVE SumInts(_)
\* the sum of int(x) over the matches xs
SumInts(xs) == IF xs = << >> THEN 0 ELSE DigitsVal(Head(xs)) + SumInts(Tail(xs))

RECURSIVE SumField(_, _)
\* the sum of int(hms.split(':')[i - 1]) over the matches
SumField(xs, i) ==
    IF xs = << >> THEN 0
    ELSE DigitsVal(Split(Head(xs), <<":">>)[i]) + SumField(Tail(xs), i)

\* ret.months += int(month), ret.days += int(day) and, for each clock,
\* ret.hours += int(h), ret.minutes += int(m), ret.seconds += int(s)
cast_sums(months, days, hms) ==
    RD(0, SumInts(months), SumInts(days),
       SumField(hms, 1), SumField(hms, 2), SumField(hms, 3), 0, 0)

\* cast_interval: the attributes are added to in place, nothing is carried
cast_interval(value) ==
    IF value.t = "None" \/ value.s = << >> THEN RD(0, 0, 0, 0, 0, 0, 0, 0)
    ELSE cast_sums(FindAllUnits(value.s, <<" ", "m", "o", "n", "t", "h">>, 0),
                   FindAllUnits(value.s, <<" ", "d", "a", "y">>, 0),
                   FindAllHms(value.s, 0))

---------------------------------------------------------------------------
(* interval/tools.py                                                       *)

RECURSIVE cmp(_, _)
\* Python 2's cmp of two tuples of one length: decided by the first
\* position where they differ
cmp(a, b) ==
    IF a = << >> THEN 0
    ELSE IF Head(a) < Head(b) THEN -1
    ELSE IF Head(a) > Head(b) THEN 1
    ELSE cmp(Tail(a), Tail(b))

\* the tuple with months ahead of years
Components_months_first(d) ==
    <<d.months, d.years, d.days, d.hours, d.minutes, d.seconds, d.secfrac,
      d.microseconds>>

\* the tuple cmp_relativedeltas builds; a float seconds is its whole part
\* followed by its millionths, which order as the float does
Components(d) ==
    <<d.years, d.months, d.days, d.hours, d.minutes, d.seconds, d.secfrac,
      d.microseconds>>

cmp_relativedeltas(l, r) == cmp(Components(l), Components(r))

---------------------------------------------------------------------------
(* The values a behaviour starts from.                                     *)

Unset == [t |-> "unset"]

\* A text is composed of day prefixes (a number and 'days,' or 'day,'),
\* clock fields joined by ':' and fraction parts, each after a '.'.
TextForm(days, clock, frac) == [days |-> days, clock |-> clock, frac |-> frac]

NoForm == TextForm(<< >>, << >>, << >>)

RECURSIVE RenderDays(_)
RenderDays(ps) ==
    IF ps = << >> THEN << >>
    ELSE Head(ps).n \o <<" ">> \o Head(ps).sep \o <<" ">> \o RenderDays(Tail(ps))

RECURSIVE RenderFrac(_)
RenderFrac(fs) ==
    IF fs = << >> THEN << >> ELSE <<".">> \o Head(fs) \o RenderFrac(Tail(fs))

Render(f) == RenderDays(f.days) \o Join(f.clock, <<":">>) \o RenderFrac(f.frac)

DayPrefix(n, sep) == [n |-> n, sep |-> sep]

DaySeps == {<<"d", "a", "y", "s", ",">>, <<"d", "a", "y", ",">>}

DayTexts == {<<"0">>, NatStr(MaxDays + 1), <<"-", "1">>, <<"x">>}

DaysChoices ==
    {<< >>}
    \cup {<<DayPrefix(n, sep)>> : n \in DayTexts, sep \in DaySeps}
    \cup {<<DayPrefix(<<"1">>, sep), DayPrefix(<<"2">>, sep)>> : sep \in DaySeps}

HourTexts == {<<"0">>, <<"5">>, NatStr(24 * MaxDays + 1), <<"-", "1">>, <<"x">>}

SixtyTexts == {<<"0">>, <<"5", "9">>, <<"6", "0">>, <<"x">>}

FracChoices ==
    {<< >>, <<<<"5">>>>, <<<<"0", "5">>>>, <<<<"9", "9", "9", "9", "9", "9">>>>,
     <<<<"0", "0", "0", "0", "0", "1", "0">>>>,
     <<<<"1", "0", "0", "0", "0", "0", "0">>>>,
     <<<<"1", "0", "0", "0", "0", "0", "1">>>>,
     <<<<"x">>>>, <<<< >>>>, <<<<"1">>, <<"2">>>>}

\* texts with a three-field clock
ClockForms ==
    {TextForm(d, <<h, m, s>>, f) :
        d \in DaysChoices, h \in HourTexts, m \in SixtyTexts, s \in SixtyTexts,
        f \in FracChoices}

\* texts whose clock has two or four fields, and texts without ':'
OddForms ==
    {TextForm(d, c, << >>) :
        d \in {<< >>, <<DayPrefix(<<"1">>, <<"d", "a", "y", "s", ",">>)>>},
        c \in {<<<<"0">>, <<"0">>>>, <<<<"0">>, <<"0">>, <<"0">>, <<"0">>>>,
               <<<<"x">>>>, <<<<"a", "b", "c">>>>, <<<<"1", "5", "0", "0", "0", "0", "0">>>>,
               <<<<"9", "0", "0", "0", "0", "0", "0", "0">>>>}}

TextForms == ClockForms \cup OddForms

\* relativedeltas as the constructor leaves them
Deltas ==
    {RD(y, mo, d, h, mi, s, 0, us) :
        y \in 0..1, mo \in {0, 11}, d \in 0..MaxDays, h \in {0, 23}, mi \in {0, 59},
        s \in {0, 59}, us \in {0, 999999}}

\* numbers read back from a BIGINT column
StoredInts ==
    {BigInt(q, r) : q \in {0, 59, 60, 3600, MaxDays * day_seconds + 3661},
                    r \in {0, 1, 500000}}

TimeDeltas == {TimeDelta(d, s, us) : d \in 0..MaxDays, s \in {0, 3661}, us \in {0, 500000}}

OtherValues == {None} \cup Deltas \cup StoredInts \cup TimeDeltas

---------------------------------------------------------------------------
(* A model instance on a backend without a native interval type.           *)

Init ==
    /\ engine \in OtherEngines
    /\ \/ form \in TextForms /\ raw = Str(Render(form))
       \/ form = NoForm /\ raw \in OtherValues
    /\ attr = Unset
    /\ db = Unset
    /\ wire = None
    /\ err = NoError
    /\ last = "init"
    /\ cycles = 0
    /\ lhs = Unset /\ rhs = Unset /\ cmpres = 0

\* instance.field = raw: SubfieldBase stores to_python(raw)
Assign ==
    /\ last = "init"
    /\ LET r == to_python(raw)
       IN  /\ err' = r.exc
           /\ attr' = IF r.exc = NoError THEN r.val ELSE attr
    /\ last' = "assign"
    /\ UNCHANGED <<engine, form, raw, db, wire, cycles, lhs, rhs, cmpres>>

\* instance.field = instance.field: the converted value is assigned again
Reassign ==
    /\ attr # Unset
    /\ LET r == to_python(attr)
       IN  /\ err' = r.exc
           /\ attr' = IF r.exc = NoError THEN r.val ELSE attr
    /\ last' = "reassign"
    /\ UNCHANGED <<engine, form, raw, db, wire, cycles, lhs, rhs, cmpres>>

\* instance.save(): the column takes get_db_prep_value(attr)
Save ==
    /\ attr # Unset
    /\ LET r == get_db_prep_value(attr, engine)
       IN  /\ err' = r.exc
           /\ db' = IF r.exc = NoError THEN r.val ELSE db
    /\ last' = "save"
    /\ UNCHANGED <<engine, form, raw, attr, wire, cycles, lhs, rhs, cmpres>>

\* the row is fetched: the attribute takes to_python(column)
Load ==
    /\ db # Unset
    /\ cycles < MaxCycles
    /\ LET r == to_python(db)
       IN  /\ err' = r.exc
           /\ attr' = IF r.exc = NoError THEN r.val ELSE attr
    /\ last' = "load"
    /\ cycles' = cycles + 1
    /\ UNCHANGED <<engine, form, raw, db, wire, lhs, rhs, cmpres>>

Next == Assign \/ Reassign \/ Save \/ Load

Spec == Init /\ [][Next]_vars

---------------------------------------------------------------------------
(* A model instance on PostgreSQL: the column is a native INTERVAL, which  *)
(* the server sends as text and psycopg2 hands to cast_interval.           *)

\* An interval text is composed of a months part, a days part and a clock,
\* each absent (<< >>) or present once, joined by blanks.
WireForm(mon, day, clock) == [mon |-> mon, day |-> day, clock |-> clock]

\* n as two digits or more
Pad2(n) == IF n < 10 THEN <<"0">> \o NatStr(n) ELSE NatStr(n)

\* '<n> <unit>', the unit in the plural unless n is 1
WireUnit(n, unit) == NatStr(n) \o <<" ">> \o unit \o (IF n = 1 THEN << >> ELSE <<"s">>)

WireParts(f) ==
    (IF f.mon = << >> THEN << >> ELSE <<WireUnit(f.mon[1], <<"m", "o", "n", "t", "h">>)>>)
    \o (IF f.day = << >> THEN << >> ELSE <<WireUnit(f.day[1], <<"d", "a", "y">>)>>)
    \o (IF f.clock = << >> THEN << >>
        ELSE <<Pad2(f.clock[1]) \o <<":">> \o Pad2(f.clock[2]) \o <<":">> \o Pad2(f.clock[3])>>)

RenderWire(f) == Join(WireParts(f), <<" ">>)

WireForms ==
    {WireForm(mon, day, clock) :
        mon \in {<< >>, <<0>>, <<1>>, <<14>>},
        day \in {<< >>, <<1>>, <<2>>, <<30>>},
        clock \in {<< >>} \cup {<<h, m, s>> : h \in {0, 7, 23, 100, 123},
                                             m \in {0, 59}, s \in {0, 5, 59}}}

InitPg ==
    /\ engine \in PgEngines
    /\ \/ form = NoForm /\ raw \in {None} \cup Deltas /\ wire = None
       \/ form \in WireForms /\ raw = None /\ wire = Str(RenderWire(form))
    /\ attr = Unset
    /\ db = Unset
    /\ err = NoError
    /\ last = "init"
    /\ cycles = 0
    /\ lhs = Unset /\ rhs = Unset /\ cmpres = 0

\* a row is fetched: psycopg2 casts the interval text with cast_interval
\* (NULL is not cast) and the attribute takes to_python of the result
Fetch ==
    /\ last = "init"
    /\ form # NoForm
    /\ LET r == to_python(cast_interval(wire))
       IN  /\ err' = r.exc
           /\ attr' = IF r.exc = NoError THEN r.val ELSE attr
    /\ last' = "fetch"
    /\ UNCHANGED <<engine, form, raw, db, wire, cycles, lhs, rhs, cmpres>>

NextPg == Assign \/ Save \/ Fetch

SpecPg == InitPg /\ [][NextPg]_vars

---------------------------------------------------------------------------
(* Sorting deltas with cmp_relativedeltas.                                 *)

\* the delta whose i-th component is a and j-th is b, the others 0
TwoComponents(i, a, j, b) ==
    LET c == [k \in 1..7 |-> IF k = i THEN a ELSE IF k = j THEN b ELSE 0]
    IN  RD(c[1], c[2], c[3], c[4], c[5], c[6], 0, c[7])

CmpDeltas ==
    {TwoComponents(i, a, j, b) :
        i \in 1..7, j \in 1..7, a \in (0 - MaxCmp)..MaxCmp, b \in (0 - MaxCmp)..MaxCmp}

InitCmp ==
    /\ lhs \in CmpDeltas
    /\ rhs \in CmpDeltas
    /\ cmpres = 0
    /\ last = "init"
    /\ engine = "django.db.backends.sqlite3"
    /\ form = NoForm /\ raw = None /\ attr = Unset /\ db = Unset /\ wire = None
    /\ err = NoError
    /\ cycles = 0

Compare ==
    /\ last = "init"
    /\ cmpres' = cmp_relativedeltas(lhs, rhs)
    /\ last' = "cmp"
    /\ UNCHANGED <<engine, form, raw, attr, db, wire, err, cycles, lhs, rhs>>

NextCmp == Compare

SpecCmp == InitCmp /\ [][NextCmp]_vars

---------------------------------------------------------------------------
(* What a value denotes, stated apart from the conversions above.          *)

\* the length of a delta without its years and months, in microseconds, as
\* the pair [q, r]
TotalOf(d) ==
    LET low == d.secfrac + d.microseconds
    IN  BigInt(((d.days * 24 + d.hours) * 60 + d.minutes) * 60 + d.seconds
                   + (low \div microseconds),
               low % microseconds)

\* a text of the shape [D days,]H:M:S[.f], every field an int literal
WellShaped(f) ==
    /\ Len(f.days) <= 1
    /\ \A i \in 1..Len(f.days) : int(f.days[i].n).ok
    /\ Len(f.clock) = 3
    /\ \A i \in 1..3 : int(f.clock[i]).ok
    /\ Len(f.frac) <= 1
    /\ \A i \in 1..Len(f.frac) : int(f.frac[i]).ok

\* the fields of a well-shaped text, as numbers
FieldD(f) == IF f.days = << >> THEN 0 ELSE int(f.days[1].n).v

FieldH(f) == int(f.clock[1]).v

FieldM(f) == int(f.clock[2]).v

FieldS(f) == int(f.clock[3]).v

FieldF(f) == IF f.frac = << >> THEN 0 ELSE int(f.frac[1]).v

FracLen(f) == IF f.frac = << >> THEN 1 ELSE Len(f.frac[1])

\* whether 0.f seconds is a whole number of microseconds, and that number
FracIsWhole(f) == FracLen(f) <= 6 \/ FieldF(f) % Pow10(FracLen(f) - 6) = 0

FracMicros(f) ==
    IF FracLen(f) <= 6 THEN FieldF(f) * Pow10(6 - FracLen(f))
    ELSE FieldF(f) \div Pow10(FracLen(f) - 6)

\* D days + H hours + M minutes + S seconds + 0.f seconds, in microseconds
Denoted(f) ==
    BigInt(((FieldD(f) * 24 + FieldH(f)) * 60 + FieldM(f)) * 60 + FieldS(f)
               + (FracMicros(f) \div microseconds),
           FracMicros(f) % microseconds)

\* the ranges of the fields of a well-shaped text
InRanges(f) ==
    /\ FieldD(f) >= 0
    /\ FieldH(f) >= 0
    /\ FieldM(f) \in 0..59
    /\ FieldS(f) \in 0..59
    /\ FieldF(f) >= 0 /\ FieldF(f) < microseconds

\* the first field of a well-shaped text that is out of its range
FirstOffending(f) ==
    IF FieldD(f) < 0 THEN "days"
    ELSE IF FieldH(f) < 0 THEN "hours"
    ELSE IF FieldM(f) \notin 0..59 THEN "minutes"
    ELSE IF FieldS(f) \notin 0..59 THEN "seconds"
    ELSE IF ~(FieldF(f) >= 0 /\ FieldF(f) < microseconds) THEN "microseconds"
    ELSE "none"

OffendingValue(f) ==
    CASE FirstOffending(f) = "days" -> FieldD(f)
      [] FirstOffending(f) = "hours" -> FieldH(f)
      [] FirstOffending(f) = "minutes" -> FieldM(f)
      [] FirstOffending(f) = "seconds" -> FieldS(f)
      [] OTHER -> FieldF(f)

\* a text was assigned and to_python has run on it
TextAssigned == last = "assign" /\ raw.t = "str" /\ Find(raw.s, <<":">>) >= 0

---------------------------------------------------------------------------
(* Claims.                                                                 *)

\* C1: on a backend other than PostgreSQL, the number get_db_prep_value
\* stores for a delta without years and months is the delta's whole length
\* in microseconds, hours and minutes included.
C1_StoredIsTotalLength ==
    (last = "save" /\ attr.t = "relativedelta" /\ attr.years = 0 /\ attr.months = 0)
        => (err = NoError /\ db = TotalOf(attr))

\* the number following unit in an interval literal's terms, 0 without one
RECURSIVE TermOf(_, _)
TermOf(tokens, unit) ==
    IF Len(tokens) < 2 THEN 0
    ELSE IF tokens[2] = unit THEN int(tokens[1]).v
    ELSE TermOf(Tail(Tail(tokens)), unit)

LiteralMonths(lit) ==
    12 * TermOf(Split(lit, <<" ">>), <<"Y", "E", "A", "R", "S">>)
        + TermOf(Split(lit, <<" ">>), MONTHS)

LiteralDays(lit) == TermOf(Split(lit, <<" ">>), DAYS)

LiteralSeconds(lit) ==
    3600 * TermOf(Split(lit, <<" ">>), <<"H", "O", "U", "R", "S">>)
        + 60 * TermOf(Split(lit, <<" ">>), <<"M", "I", "N", "U", "T", "E", "S">>)
        + TermOf(Split(lit, <<" ">>), SECONDS)

LiteralMicros(lit) == TermOf(Split(lit, <<" ">>), MICROSECONDS)

\* C2: the literal relativedelta_topgsqlstring writes denotes the delta:
\* every nonzero component, years, hours and minutes too, is part of what
\* the literal's terms add up to, and the literal is '0' only for the
\* all-zero delta.
C2_LiteralDenotesDelta ==
    (last = "save" /\ attr.t = "relativedelta" /\ attr.secfrac = 0)
        => /\ err = NoError
           /\ db.t = "str"
           /\ LiteralMonths(db.s) = 12 * attr.years + attr.months
           /\ LiteralDays(db.s) = attr.days
           /\ LiteralSeconds(db.s) = 3600 * attr.hours + 60 * attr.minutes + attr.seconds
           /\ LiteralMicros(db.s) = attr.microseconds
           /\ (db.s = <<"0">> => attr = RD(0, 0, 0, 0, 0, 0, 0, 0))

\* C3: cast_interval recovers months, days, hours, minutes and seconds
\* from an interval text '[M month(s)] [D day(s)] [h:mm:ss]', h of two
\* digits or more, absent parts giving 0.
C3_CastRecoversParts ==
    (last = "fetch")
        => /\ err = NoError
           /\ attr = RD(0,
                        IF form.mon = << >> THEN 0 ELSE form.mon[1],
                        IF form.day = << >> THEN 0 ELSE form.day[1],
                        IF form.clock = << >> THEN 0 ELSE form.clock[1],
                        IF form.clock = << >> THEN 0 ELSE form.clock[2],
                        IF form.clock = << >> THEN 0 ELSE form.clock[3],
                        0, 0)

\* C4: the delta to_python returns for an accepted text '[D days,]H:M:S[.f]'
\* is exactly D days + H hours + M minutes + S seconds + 0.f seconds
\* (stated for the texts whose fields are in the documented ranges and
\* whose fraction is a whole number of microseconds).
C4_TextDenotesDelta ==
    (TextAssigned /\ err = NoError /\ WellShaped(form) /\ InRanges(form)
        /\ FracIsWhole(form))
        => /\ attr.t = "relativedelta"
           /\ attr.years = 0 /\ attr.months = 0
           /\ TotalOf(attr) = Denoted(form)

\* C5: to_python accepts a text of the shape '[D days,]H:M:S[.f]' only with
\* minutes and seconds in [0,59], the fraction field in [0, 10^6), 10^6
\* excluded, and days and hours >= 0; a text outside these ranges is
\* rejected with a ValueError and no delta is returned.
C5_AcceptedOnlyInRanges ==
    (TextAssigned /\ WellShaped(form))
        => /\ err = NoError => InRanges(form)
           /\ ~InRanges(form) => (err.t = "ValueError" /\ attr = Unset)

\* C6: a text that fails to parse (not of the shape '[D days,]H:M:S[.f]'
\* with numeric fields, or without ':' and not a number) is refused with a
\* ValueError carrying formatError's format instruction.
C6_ParseFailureIsFormatError ==
    (last = "assign" /\ raw.t = "str" /\ raw.s # << >> /\ err # NoError
        /\ ~WellShaped(form))
        => (err.t = "ValueError" /\ err.fmt = FormatInstruction)

\* the errors to_python raises for well-shaped texts out of range, each
\* with the field that is the first out of range
RangeErrors ==
    {[field |-> FirstOffending(f), value |-> OffendingValue(f),
      exc |-> to_python(Str(Render(f))).exc] :
        f \in {g \in ClockForms : WellShaped(g) /\ ~InRanges(g)}}

\* C7: the error for a well-shaped text with a field out of range is that
\* of the first offending field (days, hours, minutes, seconds,
\* microseconds), and it differs from the error any other field raises for
\* the same out-of-range value.
C7_RangeErrorNamesField ==
    (TextAssigned /\ WellShaped(form) /\ ~InRanges(form) /\ err # NoError)
        => /\ err.t = "ValueError"
           /\ err.args # << >>
           /\ err.args[1] = IntStr(OffendingValue(form))
           /\ \A e \in RangeErrors :
                  (e.field # FirstOffending(form) /\ e.value = OffendingValue(form))
                      => e.exc # err

\* the seven components in cmp_relativedeltas's order of priority
Seven(d) == <<d.years, d.months, d.days, d.hours, d.minutes, d.seconds, d.microseconds>>

\* the sign the lexicographic order of two 7-tuples gives
LexSign(a, b) ==
    IF a = b THEN 0
    ELSE LET k == CHOOSE i \in 1..7 : a[i] # b[i] /\ \A j \in 1..(i - 1) : a[j] = b[j]
         IN  IF a[k] < b[k] THEN -1 ELSE 1

\* C8: cmp_relativedeltas returns -1, 0 or 1 as the lexicographic order of
\* (years, months, days, hours, minutes, seconds, microseconds) has it: 0
\* exactly when all seven are equal, and cmp(a, b) = -cmp(b, a).
C8_CmpIsLexicographic ==
    (last = "cmp")
        => /\ cmpres \in {-1, 0, 1}
           /\ cmpres = LexSign(Seven(lhs), Seven(rhs))
           /\ (cmpres = 0) <=> (Seven(lhs) = Seven(rhs))
           /\ cmpres = 0 - cmp_relativedeltas(rhs, lhs)

\* C8's case: the deltas differ in two components that order them
\* oppositely, and the one of higher priority decided
C8_Witness ==
    /\ last = "cmp"
    /\ lhs.years = rhs.years
    /\ lhs.months < rhs.months
    /\ lhs.microseconds > rhs.microseconds
    /\ cmpres = -1

\* C9: on a backend other than PostgreSQL, the delta loaded after any
\* number of save/load cycles has the total length of the delta to_python
\* returned for the text first assigned.
C9_SaveLoadKeepsLength ==
    (last = "load" /\ raw.t = "str" /\ WellShaped(form) /\ to_python(raw).exc = NoError)
        => /\ err = NoError
           /\ attr.t = "relativedelta"
           /\ TotalOf(attr) = TotalOf(to_python(raw).val)

=============================================================================
